---- MODULE Spec2Model ----
(***************************************************************************)
(* The neighbor table of examples/rime/example-broadcast.c: the receive    *)
(* callback broadcast_recv, the pool neighbors_memb, the list              *)
(* neighbors_list and sort_list_based_on_rssi.                             *)
(*                                                                         *)
(* A record is [addr, last_rssi]; neighbors_list is the sequence of the    *)
(* records from list_head to list_tail; a pointer to a record on the list  *)
(* is its position, NULL is 0.  broadcast_recv runs as a chain of steps    *)
(* (pc), each of them a block of consecutive lines of the function.        *)
(***************************************************************************)
EXTENDS Integers, Sequences, FiniteSets

\* ---- bounds of the exploration
MaxCapacity == 3          \* MAX_NEIGHBORS is explored for 0..MaxCapacity
NumAddrs == 4             \* sender addresses 1..NumAddrs
LoopCapacity == 2         \* MAX_NEIGHBORS is 0..LoopCapacity where the send loop runs too
ClockSecond == 1          \* CLOCK_SECOND, the platform's clock ticks per second
MaxRand == 5              \* random_rand() returns 0..MaxRand

\* ---- values of the program
NULL == 0                 \* the null pointer
UNLINKED == -1            \* n points to a slot of the pool that is on no list
BSS_ZERO == 0             \* content of a slot of the static pool never written
MAX_NEIGHBORS == 5        \* #define MAX_NEIGHBORS 5

Addrs == 1..NumAddrs
RssiValues == {3, 5, 10, 15, 20}      \* values of PACKETBUF_ATTR_RSSI delivered
Capacities == 0..MaxCapacity

VARIABLES
  max_neighbors,   \* the configured MAX_NEIGHBORS
  neighbors_list,  \* LIST(neighbors_list), head first
  memb_used,       \* number of slots of neighbors_memb that are allocated
  pc,              \* position of broadcast_recv ("idle": not running)
  from,            \* argument of the running / last callback (NULL before the first)
  new_mote_rssi,   \* local of the running / last callback
  n,               \* local n: NULL, UNLINKED or a position of neighbors_list
  n_last_rssi,     \* n->last_rssi while n is UNLINKED (what the slot still holds)
  printed,         \* the rows printed by the dump loop of the last callback
  dumped,          \* whether the running / last callback reached the dump loop
  fault,           \* "none", or "null_deref" once a NULL record was dereferenced
  outcome,         \* what the running / last callback did to the table
  pre,             \* neighbors_list when the running / last callback was entered
  scen,            \* how many observations of the scenario have been delivered so far
  prev,            \* local prev of sort_list_based_on_rssi (a position, or NULL)
  next,            \* local next of sort_list_based_on_rssi (a position, or NULL)
  proc,            \* position of the thread of example_broadcast_process
  et               \* the interval the etimer et was set to, in clock ticks (0: not set)

sort_locals == <<prev, next>>

process_vars == <<proc, et>>

vars == <<max_neighbors, neighbors_list, memb_used, pc, from, new_mote_rssi, n,
          n_last_rssi, printed, dumped, fault, outcome, pre, scen, prev, next,
          proc, et>>

\* ---- lib/list.h as used by the file: a pointer is a position
list_head(l) == IF l = <<>> THEN NULL ELSE 1

list_item_next(l, i) == IF i < Len(l) THEN i + 1 ELSE NULL

list_tail(l) == IF l = <<>> THEN NULL ELSE Len(l)

list_remove_C14(l, i) ==
  IF i = NULL \/ i > Len(l) THEN l
  ELSE SubSeq(l, 1, i - 2) \o SubSeq(l, i, Len(l))

list_remove(l, i) ==
  IF i = NULL \/ i > Len(l) THEN l
  ELSE SubSeq(l, 1, i - 1) \o SubSeq(l, i + 1, Len(l))

list_push_C11(l, rec) == l

list_push(l, rec) == <<rec>> \o l

list_add(l, rec) == Append(l, rec)

\* ---- lib/memb.h as used by the file
memb_alloc_fails_C7(used, cap) == used + 1 >= cap

memb_alloc_fails_C19(used, cap) == used >= cap - 1

memb_alloc_fails(used, cap) == used >= cap

memb_free_C18(used) == used

memb_free(used) == IF used > 0 THEN used - 1 ELSE used

\* ---- broadcast_recv, lines 125-134: the lookup loop
linkaddr_cmp(a, b) == a = b

RECURSIVE LookupFrom(_, _, _)
LookupFrom(l, i, a) ==
  IF i = NULL THEN NULL
  ELSE IF linkaddr_cmp(l[i].addr, a) THEN i
  ELSE LookupFrom(l, list_item_next(l, i), a)

Lookup_C2(l, a) == LookupFrom(l, list_item_next(l, list_head(l)), a)

Lookup(l, a) == LookupFrom(l, list_head(l), a)

\* ---- sort_list_based_on_rssi, lines 77-107
RssiHigher_C3(next_rssi, prev_rssi) == next_rssi < prev_rssi

RssiHigher_C13(next_rssi, prev_rssi) == next_rssi >= prev_rssi

RssiHigher(next_rssi, prev_rssi) == next_rssi > prev_rssi

RECURSIVE SortLoop(_, _, _)
SortLoop(l, p, nx) ==
  IF nx = NULL THEN l
  ELSE IF RssiHigher(l[nx].last_rssi, l[p].last_rssi)
       THEN LET moved == list_push(list_remove(l, nx), l[nx])
            IN  SortLoop(moved, list_head(moved), list_item_next(moved, list_head(moved)))
       ELSE SortLoop(l, nx, list_item_next(l, nx))

sort_list_based_on_rssi(l) ==
  IF list_head(l) = NULL THEN l
  ELSE SortLoop(l, list_head(l), list_item_next(l, list_head(l)))

\* ---- broadcast_recv, line 145: the admission test against the tail
LowestIsLower_C5(lowest_rssi, rssi) == lowest_rssi <= rssi

LowestIsLower(lowest_rssi, rssi) == lowest_rssi < rssi

\* ---- broadcast_recv, lines 144 and 150: the record that is evicted
LowestRssiNeighbor_C8(l) == list_head(l)

LowestRssiNeighbor(l) == list_tail(l)

RemoveLowest_C1(l, lowest) == l

RemoveLowest_C4(l, lowest) == list_remove(l, list_head(l))

RemoveLowest_C20(l, lowest) ==
  IF lowest = NULL THEN l ELSE list_remove(list_remove(l, lowest), lowest - 1)

RemoveLowest(l, lowest) == list_remove(l, lowest)

\* ---- broadcast_recv, line 168
SetLastRssi_C6(l, i, rssi) ==
  [l EXCEPT ![i].last_rssi = IF rssi > @ THEN rssi ELSE @]

SetLastRssi(l, i, rssi) == [l EXCEPT ![i].last_rssi = rssi]

\* ---- the scenario of capacity 2 (addresses A, B, C are 1, 2, 3)
ScenarioObs ==
  << <<1, 10>>, <<2, 20>>, <<3, 5>>, <<3, 15>>, <<2, 3>> >>

ScenarioNext(s, a, r) ==
  IF s >= 0 /\ s < Len(ScenarioObs) /\ ScenarioObs[s + 1] = <<a, r>>
  THEN s + 1 ELSE -1

\* ---- the state after construction
Init ==
  /\ max_neighbors \in Capacities
  /\ neighbors_list = <<>>
  /\ memb_used = 0
  /\ pc = "idle"
  /\ from = NULL
  /\ new_mote_rssi = 0
  /\ n = NULL
  /\ n_last_rssi = BSS_ZERO
  /\ printed = <<>>
  /\ dumped = FALSE
  /\ fault = "none"
  /\ outcome = "none"
  /\ pre = <<>>
  /\ scen = 0
  /\ prev = NULL
  /\ next = NULL
  /\ proc = "begin"
  /\ et = 0

\* lines 113-140: entry, the lookup loop and, for an unknown sender, memb_alloc
Recv(a, r) ==
  /\ pc = "idle"
  /\ from' = a
  /\ new_mote_rssi' = r
  /\ pre' = neighbors_list
  /\ scen' = ScenarioNext(scen, a, r)
  /\ printed' = <<>>
  /\ dumped' = FALSE
  /\ LET found == Lookup(neighbors_list, a) IN
       IF found # NULL
       THEN /\ n' = found
            /\ pc' = "fill"
            /\ outcome' = "updated"
            /\ UNCHANGED <<memb_used, n_last_rssi>>
       ELSE IF memb_alloc_fails(memb_used, max_neighbors)
       THEN /\ n' = NULL
            /\ pc' = "full"
            /\ outcome' = "none"
            /\ UNCHANGED <<memb_used, n_last_rssi>>
       ELSE /\ n' = UNLINKED
            /\ n_last_rssi' = BSS_ZERO
            /\ memb_used' = memb_used + 1
            /\ pc' = "init"
            /\ outcome' = "inserted"
  /\ UNCHANGED <<sort_locals, process_vars, max_neighbors, neighbors_list, fault>>

\* lines 150-153: list_remove, memb_free and the second memb_alloc
EvictAndRealloc(lowest) ==
  /\ neighbors_list' = RemoveLowest(neighbors_list, lowest)
  /\ LET freed == IF lowest = NULL THEN memb_used ELSE memb_free(memb_used) IN
       IF memb_alloc_fails(freed, max_neighbors)
       THEN /\ n' = NULL
            /\ memb_used' = freed
            /\ UNCHANGED n_last_rssi
       ELSE /\ n' = UNLINKED
            /\ memb_used' = freed + 1
            /\ n_last_rssi' = IF lowest = NULL THEN BSS_ZERO
                              ELSE neighbors_list[lowest].last_rssi
  /\ pc' = "init"
  /\ outcome' = "evicted"

Reject_C15 ==
  /\ pc' = "dump"
  /\ outcome' = "rejected"
  /\ n' = NULL
  /\ UNCHANGED <<neighbors_list, memb_used, n_last_rssi>>

\* lines 155-158: the early return
Reject ==
  /\ pc' = "idle"
  /\ outcome' = "rejected"
  /\ n' = NULL
  /\ UNCHANGED <<neighbors_list, memb_used, n_last_rssi>>

\* lines 143-159 with a tail: evict the tail or reject
Full ==
  /\ pc = "full"
  /\ LowestRssiNeighbor(neighbors_list) # NULL
  /\ LET lowest == LowestRssiNeighbor(neighbors_list) IN
       IF LowestIsLower(neighbors_list[lowest].last_rssi, new_mote_rssi)
       THEN EvictAndRealloc(lowest)
       ELSE Reject
  /\ UNCHANGED <<sort_locals, process_vars, max_neighbors, from, new_mote_rssi, printed, dumped, fault, pre, scen>>

\* lines 143-159 on an empty list: list_tail is NULL and line 145 reads through
\* it.  The read is undefined: the callback traps, or goes on with whatever the
\* read returned.
FullNoTail ==
  /\ pc = "full"
  /\ LowestRssiNeighbor(neighbors_list) = NULL
  /\ fault' = "null_deref"
  /\ \/ /\ pc' = "crashed"
        /\ UNCHANGED <<neighbors_list, memb_used, n, n_last_rssi, outcome>>
     \/ \E garbage \in RssiValues \cup {BSS_ZERO} :
          IF LowestIsLower(garbage, new_mote_rssi)
          THEN EvictAndRealloc(NULL)
          ELSE Reject
  /\ UNCHANGED <<sort_locals, process_vars, max_neighbors, from, new_mote_rssi, printed, dumped, pre, scen>>

\* lines 161-164: linkaddr_copy and list_add of the new record
InitFields ==
  /\ pc = "init"
  /\ n = UNLINKED
  /\ neighbors_list' =
       list_add(neighbors_list, [addr |-> from, last_rssi |-> n_last_rssi])
  /\ n' = Len(neighbors_list) + 1
  /\ n_last_rssi' = BSS_ZERO
  /\ pc' = "fill"
  /\ UNCHANGED <<sort_locals, process_vars, max_neighbors, memb_used, from, new_mote_rssi, printed, dumped,
                 fault, outcome, pre, scen>>

\* lines 161-164 with n = NULL: the writes through n are undefined; the callback
\* traps, or goes on, and list_add of NULL leaves the list as it is.
InitFieldsNull ==
  /\ pc = "init"
  /\ n = NULL
  /\ fault' = "null_deref"
  /\ \/ pc' = "crashed"
     \/ pc' = "fill"
  /\ UNCHANGED <<sort_locals, process_vars, max_neighbors, neighbors_list, memb_used, from, new_mote_rssi, n,
                 n_last_rssi, printed, dumped, outcome, pre, scen>>

\* line 168
FillRssi ==
  /\ pc = "fill"
  /\ n # NULL
  /\ neighbors_list' = SetLastRssi(neighbors_list, n, new_mote_rssi)
  /\ pc' = "sort"
  /\ UNCHANGED <<sort_locals, process_vars, max_neighbors, memb_used, from, new_mote_rssi, n, n_last_rssi,
                 printed, dumped, fault, outcome, pre, scen>>

\* line 168 with n = NULL: an undefined write
FillRssiNull ==
  /\ pc = "fill"
  /\ n = NULL
  /\ fault' = "null_deref"
  /\ \/ pc' = "crashed"
     \/ pc' = "sort"
  /\ UNCHANGED <<sort_locals, process_vars, max_neighbors, neighbors_list, memb_used, from, new_mote_rssi, n,
                 n_last_rssi, printed, dumped, outcome, pre, scen>>

\* line 171
Sort ==
  /\ pc = "sort"
  /\ neighbors_list' = sort_list_based_on_rssi(neighbors_list)
  /\ pc' = "dump"
  /\ UNCHANGED <<sort_locals, process_vars, max_neighbors, memb_used, from, new_mote_rssi, n, n_last_rssi,
                 printed, dumped, fault, outcome, pre, scen>>

DumpFrom_C12(l, each) == IF each = NULL THEN <<>> ELSE <<l[each]>>

\* lines 173-177: the rows the dump loop prints, from list_head to the end
RECURSIVE DumpFrom(_, _)
DumpFrom(l, each) ==
  IF each = NULL THEN <<>>
  ELSE <<l[each]>> \o DumpFrom(l, list_item_next(l, each))

\* lines 173-179: the dump loop and the return
Dump ==
  /\ pc = "dump"
  /\ printed' = DumpFrom(neighbors_list, list_head(neighbors_list))
  /\ dumped' = TRUE
  /\ n' = NULL
  /\ pc' = "idle"
  /\ UNCHANGED <<sort_locals, process_vars, max_neighbors, neighbors_list, memb_used, from, new_mote_rssi,
                 n_last_rssi, fault, outcome, pre, scen>>

Next ==
  \/ \E a \in Addrs, r \in RssiValues : Recv(a, r)
  \/ Full
  \/ FullNoTail
  \/ InitFields
  \/ InitFieldsNull
  \/ FillRssi
  \/ FillRssiNull
  \/ Sort
  \/ Dump

\* the receive callback alone: the thread of the process takes no step
Spec == Init /\ [][Next]_vars

\* ---- sort_list_based_on_rssi step by step, on every list of up to
\* ---- MAX_NEIGHBORS records

\* lines 90-105: one iteration of the while loop
SortIterate(l, p, nx) ==
  IF RssiHigher(l[nx].last_rssi, l[p].last_rssi)
  THEN LET moved == list_push(list_remove(l, nx), l[nx])
       IN  [list |-> moved, prev |-> list_head(moved),
            next |-> list_item_next(moved, list_head(moved))]
  ELSE [list |-> l, prev |-> nx, next |-> list_item_next(l, nx)]

\* the lists the function may be called on: records 1..k in any order of quality
SortInputs ==
  UNION {{[i \in 1..k |-> [addr |-> i, last_rssi |-> q[i]]] : q \in [1..k -> RssiValues]}
         : k \in 0..MAX_NEIGHBORS}

\* the call at line 171 on an arbitrary list
SortInit ==
  /\ max_neighbors = MAX_NEIGHBORS
  /\ neighbors_list \in SortInputs
  /\ pre = neighbors_list
  /\ memb_used = Len(neighbors_list)
  /\ pc = "sort"
  /\ from = NULL
  /\ new_mote_rssi = 0
  /\ n = NULL
  /\ n_last_rssi = BSS_ZERO
  /\ printed = <<>>
  /\ dumped = FALSE
  /\ fault = "none"
  /\ outcome = "none"
  /\ scen = -1
  /\ prev = NULL
  /\ next = NULL
  /\ proc = "wait"
  /\ et = 0

\* lines 78-87: the early returns and the initialisation of prev and next
SortEnter ==
  /\ pc = "sort"
  /\ IF list_head(neighbors_list) = NULL
     THEN /\ pc' = "dump"
          /\ UNCHANGED sort_locals
     ELSE /\ prev' = list_head(neighbors_list)
          /\ next' = list_item_next(neighbors_list, list_head(neighbors_list))
          /\ pc' = "sort_loop"
  /\ UNCHANGED <<process_vars, max_neighbors, neighbors_list, memb_used, from,
                 new_mote_rssi, n, n_last_rssi, printed, dumped, fault, outcome,
                 pre, scen>>

\* lines 89-106: one iteration
SortIteration ==
  /\ pc = "sort_loop"
  /\ next # NULL
  /\ LET after == SortIterate(neighbors_list, prev, next) IN
       /\ neighbors_list' = after.list
       /\ prev' = after.prev
       /\ next' = after.next
  /\ UNCHANGED <<process_vars, max_neighbors, memb_used, pc, from, new_mote_rssi, n,
                 n_last_rssi, printed, dumped, fault, outcome, pre, scen>>

\* lines 89 and 107: next is NULL, the loop is left and the function returns
SortReturn ==
  /\ pc = "sort_loop"
  /\ next = NULL
  /\ pc' = "dump"
  /\ prev' = NULL
  /\ UNCHANGED <<process_vars, max_neighbors, neighbors_list, memb_used, from,
                 new_mote_rssi, n, n_last_rssi, printed, dumped, fault, outcome,
                 pre, scen, next>>

SortNext ==
  \/ SortEnter
  \/ SortIteration
  \/ SortReturn

\* the function runs on once called: it has no blocking call
SpecSort == SortInit /\ [][SortNext]_vars /\ WF_vars(SortNext)

\* ---- the thread of example_broadcast_process, lines 183-206, run together
\* ---- with the receive callback

\* Contiki schedules cooperatively: the thread of a process runs only while no
\* callback is running, up to its next PROCESS_WAIT
CallbackNotRunning == pc = "idle"

\* line 196: the interval handed to etimer_set
TimerInterval(rand) == (ClockSecond * 4) + (rand % (ClockSecond * 4))

\* lines 187-191: PROCESS_BEGIN and broadcast_open
ProcessBegin ==
  /\ CallbackNotRunning
  /\ proc = "begin"
  /\ proc' = "set"
  /\ UNCHANGED <<sort_locals, et, max_neighbors, neighbors_list, memb_used, pc, from,
                 new_mote_rssi, n, n_last_rssi, printed, dumped, fault, outcome,
                 pre, scen>>

\* lines 193-198: etimer_set, then the thread waits for the timer
TimerSet(rand) ==
  /\ CallbackNotRunning
  /\ proc = "set"
  /\ et' = TimerInterval(rand)
  /\ proc' = "wait"
  /\ UNCHANGED <<sort_locals, max_neighbors, neighbors_list, memb_used, pc, from,
                 new_mote_rssi, n, n_last_rssi, printed, dumped, fault, outcome,
                 pre, scen>>

\* line 198: the timer expires and the thread is resumed
TimerExpire ==
  /\ CallbackNotRunning
  /\ proc = "wait"
  /\ et' = 0
  /\ proc' = "send"
  /\ UNCHANGED <<sort_locals, max_neighbors, neighbors_list, memb_used, pc, from,
                 new_mote_rssi, n, n_last_rssi, printed, dumped, fault, outcome,
                 pre, scen>>

Send_C16 ==
  /\ CallbackNotRunning
  /\ proc = "send"
  /\ proc' = "set"
  /\ neighbors_list' = <<>>
  /\ UNCHANGED <<sort_locals, et, max_neighbors, memb_used, pc, from,
                 new_mote_rssi, n, n_last_rssi, printed, dumped, fault, outcome,
                 pre, scen>>

\* lines 200-203: packetbuf_copyfrom, broadcast_send, and back to the loop head
Send ==
  /\ CallbackNotRunning
  /\ proc = "send"
  /\ proc' = "set"
  /\ UNCHANGED <<sort_locals, et, max_neighbors, neighbors_list, memb_used, pc, from,
                 new_mote_rssi, n, n_last_rssi, printed, dumped, fault, outcome,
                 pre, scen>>

\* the program from its start, for the capacities 0..LoopCapacity
LoopInit == Init /\ max_neighbors <= LoopCapacity

\* The callback is registered by broadcast_open (line 191): it is delivered once
\* the thread is past it.
LoopNext ==
  \/ \E a \in Addrs, r \in RssiValues : proc # "begin" /\ Recv(a, r)
  \/ Full
  \/ FullNoTail
  \/ InitFields
  \/ InitFieldsNull
  \/ FillRssi
  \/ FillRssiNull
  \/ Sort
  \/ Dump
  \/ ProcessBegin
  \/ \E rand \in 0..MaxRand : TimerSet(rand)
  \/ TimerExpire
  \/ Send

SpecLoop == LoopInit /\ [][LoopNext]_vars

\* ---- vocabulary of the properties
AddrsOf(l) == {l[i].addr : i \in 1..Len(l)}

RecordsOf(l) == {l[i] : i \in 1..Len(l)}

RssiOf(l) == {l[i].last_rssi : i \in 1..Len(l)}

PosOf(l, a) == CHOOSE i \in 1..Len(l) : l[i].addr = a

IsMinRssi(l, q) == q \in RssiOf(l) /\ \A x \in RssiOf(l) : q <= x

NonIncreasing(l) == \A i \in 1..(Len(l) - 1) : l[i].last_rssi >= l[i + 1].last_rssi

Returned == pc = "idle" /\ outcome # "none"

\* the last observe() found the table full and the sender unknown
FullAndUnknown ==
  /\ Returned
  /\ max_neighbors >= 1
  /\ Len(pre) = max_neighbors
  /\ from \notin AddrsOf(pre)

\* C1: in every reachable state, between any two lines of broadcast_recv, the
\* neighbor table holds at most MAX_NEIGHBORS records.
C1_BoundedSize == Len(neighbors_list) <= max_neighbors

\* C1 witness: the state between the eviction and the insertion, at the largest
\* capacity: the pool is full again and the list is one record short.
C1_Witness ==
  /\ pc = "init"
  /\ outcome = "evicted"
  /\ max_neighbors = MaxCapacity
  /\ memb_used = max_neighbors
  /\ Len(neighbors_list) = max_neighbors - 1

\* C2: in every reachable state no two records of the neighbor table have the
\* same address.
C2_UniqueAddresses ==
  \A i, j \in 1..Len(neighbors_list) :
    i # j => neighbors_list[i].addr # neighbors_list[j].addr

\* C2 witness: a sender already in a table of several records was observed again
\* and the callback returned.
C2_Witness ==
  /\ Returned
  /\ outcome = "updated"
  /\ Len(neighbors_list) >= 2
  /\ from \in AddrsOf(pre)

\* C3: at every return of broadcast_recv (insert, update, eviction or rejection)
\* the table is in non-increasing order of last_rssi.
C3_SortedAfterObserve == pc = "idle" => NonIncreasing(neighbors_list)

\* C3 witness: an update made the order wrong (the head got the lowest value of
\* three) and the callback returned with the records in another order.
C3_Witness ==
  /\ Returned
  /\ outcome = "updated"
  /\ Len(pre) >= 3
  /\ pre[1].addr = from
  /\ neighbors_list[Len(neighbors_list)].addr = from
  /\ neighbors_list[1].last_rssi > neighbors_list[Len(neighbors_list)].last_rssi

\* C4: a full table and an unknown sender whose quality is strictly above the
\* table's minimum: on return the old tail, which had the minimum quality, is
\* gone, the sender is present with the observed quality, every other record is
\* kept with its quality, and the size is still MAX_NEIGHBORS.
C4_EvictionReplacesWeakest ==
  (FullAndUnknown /\ \E q \in RssiOf(pre) : IsMinRssi(pre, q) /\ new_mote_rssi > q)
  => /\ IsMinRssi(pre, pre[Len(pre)].last_rssi)
     /\ pre[Len(pre)].addr \notin AddrsOf(neighbors_list)
     /\ [addr |-> from, last_rssi |-> new_mote_rssi] \in RecordsOf(neighbors_list)
     /\ \A i \in 1..(Len(pre) - 1) : pre[i] \in RecordsOf(neighbors_list)
     /\ Len(neighbors_list) = max_neighbors
     /\ outcome = "evicted"

\* C4 witness: an eviction from a table of MaxCapacity records returned, the
\* newcomer ranking strictly inside the table.
C4_Witness ==
  /\ FullAndUnknown
  /\ max_neighbors = MaxCapacity
  /\ outcome = "evicted"
  /\ new_mote_rssi > pre[Len(pre)].last_rssi
  /\ new_mote_rssi < pre[1].last_rssi

\* C5: a full table and an unknown sender whose quality is at most the table's
\* minimum (equality included): the observation is rejected and the table is
\* the same sequence of records as before.
C5_RejectionLeavesTable ==
  (FullAndUnknown /\ \E q \in RssiOf(pre) : IsMinRssi(pre, q) /\ new_mote_rssi <= q)
  => /\ outcome = "rejected"
     /\ neighbors_list = pre

\* C5 witness: a rejection on equality with the minimum.
C5_Witness ==
  /\ FullAndUnknown
  /\ outcome = "rejected"
  /\ IsMinRssi(pre, new_mote_rssi)

\* C6: observing a sender that is in the table is never rejected; on return its
\* record has the observed quality, every other record is as before, and the
\* size is unchanged.
C6_UpdateInPlace ==
  (Returned /\ from \in AddrsOf(pre))
  => /\ outcome = "updated"
     /\ Len(neighbors_list) = Len(pre)
     /\ AddrsOf(neighbors_list) = AddrsOf(pre)
     /\ [addr |-> from, last_rssi |-> new_mote_rssi] \in RecordsOf(neighbors_list)
     /\ \A i \in 1..Len(pre) :
          pre[i].addr # from => pre[i] \in RecordsOf(neighbors_list)

\* C6 witness: a known sender of a full table was observed with a quality below
\* the weakest record of the table, and its quality went down.
C6_Witness ==
  /\ Returned
  /\ from \in AddrsOf(pre)
  /\ Len(pre) = max_neighbors
  /\ max_neighbors >= 2
  /\ new_mote_rssi < pre[Len(pre)].last_rssi
  /\ pre[PosOf(pre, from)].last_rssi > new_mote_rssi

\* C7: a table with a free slot and an unknown sender: the observation is
\* admitted whatever its quality; on return the sender is present with the
\* observed quality, the size has grown by one, and every previous record is
\* kept with its quality.
C7_AdmitWhenFree ==
  (Returned /\ Len(pre) < max_neighbors /\ from \notin AddrsOf(pre))
  => /\ outcome = "inserted"
     /\ Len(neighbors_list) = Len(pre) + 1
     /\ [addr |-> from, last_rssi |-> new_mote_rssi] \in RecordsOf(neighbors_list)
     /\ \A i \in 1..Len(pre) : pre[i] \in RecordsOf(neighbors_list)

\* C7 witness: a newcomer weaker than every record of a non-empty table with one
\* free slot was admitted.
C7_Witness ==
  /\ Returned
  /\ from \notin AddrsOf(pre)
  /\ Len(pre) >= 1
  /\ Len(pre) = max_neighbors - 1
  /\ new_mote_rssi < pre[Len(pre)].last_rssi
  /\ Len(neighbors_list) = max_neighbors

\* the tables of the scenario after its 1st .. 5th observation
ScenarioTables ==
  << << [addr |-> 1, last_rssi |-> 10] >>,
     << [addr |-> 2, last_rssi |-> 20], [addr |-> 1, last_rssi |-> 10] >>,
     << [addr |-> 2, last_rssi |-> 20], [addr |-> 1, last_rssi |-> 10] >>,
     << [addr |-> 2, last_rssi |-> 20], [addr |-> 3, last_rssi |-> 15] >>,
     << [addr |-> 3, last_rssi |-> 15], [addr |-> 2, last_rssi |-> 3] >> >>

ScenarioOutcomes == <<"inserted", "inserted", "rejected", "evicted", "updated">>

\* C8: with capacity 2 and an empty table, observe(A,10), observe(B,20),
\* observe(C,5), observe(C,15), observe(B,3) leave the tables [A:10],
\* [B:20,A:10], [B:20,A:10] (C rejected), [B:20,C:15] (A evicted), [C:15,B:3].
C8_Scenario ==
  (max_neighbors = 2 /\ pc = "idle" /\ scen >= 1)
  => /\ neighbors_list = ScenarioTables[scen]
     /\ outcome = ScenarioOutcomes[scen]

\* C8 witness: the fifth observation of the scenario has returned.
C8_Witness == max_neighbors = 2 /\ pc = "idle" /\ scen = 5

\* C9: two records whose qualities are equal before and after an observe() call
\* are in the same relative order after it as before.
C9_StableResort ==
  Returned =>
    \A a, b \in AddrsOf(pre) \cap AddrsOf(neighbors_list) :
      ( /\ PosOf(pre, a) < PosOf(pre, b)
        /\ pre[PosOf(pre, a)].last_rssi = pre[PosOf(pre, b)].last_rssi
        /\ neighbors_list[PosOf(neighbors_list, a)].last_rssi
             = neighbors_list[PosOf(neighbors_list, b)].last_rssi )
      => PosOf(neighbors_list, a) < PosOf(neighbors_list, b)

\* C10: with MAX_NEIGHBORS zero every observation is rejected, the table stays
\* empty and no record is read through the NULL tail of the empty list.
C10_ZeroCapacityFailsFast ==
  max_neighbors = 0
  => /\ fault = "none"
     /\ pc # "crashed"
     /\ neighbors_list = <<>>
     /\ (pc = "idle" => outcome \in {"none", "rejected"})

\* C11: a record leaves the table only through the eviction path.  In every
\* state, an address that was in the table when the running / last callback was
\* entered and is not in it now was removed by an eviction: the table was full,
\* the observed address was unknown and the observed quality is strictly above
\* the quality the removed record had.
C11_RemovedOnlyByEviction ==
  \A a \in AddrsOf(pre) \ AddrsOf(neighbors_list) :
    /\ outcome = "evicted"
    /\ Len(pre) = max_neighbors
    /\ from \notin AddrsOf(pre)
    /\ new_mote_rssi > pre[PosOf(pre, a)].last_rssi
    /\ AddrsOf(pre) \ AddrsOf(neighbors_list) = {a}

\* C11 witness: an eviction returned after the re-sort had moved the newcomer
\* to the head of a table of MaxCapacity records.
C11_Witness ==
  /\ Returned
  /\ outcome = "evicted"
  /\ max_neighbors = MaxCapacity
  /\ AddrsOf(pre) \ AddrsOf(neighbors_list) # {}
  /\ neighbors_list[1].addr = from

\* C12: the dump loop visits the records of the table from head to tail, each
\* exactly once, in non-increasing order of quality, ends, and leaves the table
\* as it was.
C12_DumpReadsTableInOrder ==
  [][pc = "dump" =>
       /\ printed' = neighbors_list
       /\ NonIncreasing(printed')
       /\ neighbors_list' = neighbors_list
       /\ memb_used' = memb_used
       /\ pc' = "idle"]_vars

\* C12 witness: a dump of MaxCapacity records with three different qualities
\* has been printed.
C12_Witness ==
  /\ pc = "idle"
  /\ dumped
  /\ Len(printed) = MaxCapacity
  /\ MaxCapacity >= 2
  /\ printed[1].last_rssi > printed[Len(printed)].last_rssi

\* C15 as claimed: every invocation of the receive callback that returns,
\* whatever its outcome, has dumped the table before returning.
C15_DumpAfterEveryObserve == Returned => dumped

\* C15 as amended: an invocation that inserts, updates or evicts dumps the table
\* before it returns; an invocation that rejects returns without a dump.
C15_DumpUnlessRejected ==
  Returned =>
    /\ outcome \in {"inserted", "updated", "evicted"} => dumped /\ printed = neighbors_list
    /\ outcome = "rejected" => ~dumped /\ printed = <<>>

\* C15 witness: a rejection by a full table of MaxCapacity records returned.
C15_Witness ==
  /\ Returned
  /\ outcome = "rejected"
  /\ Len(neighbors_list) = MaxCapacity
  /\ ~dumped

\* C18: at every return of broadcast_recv the number of allocated slots of
\* neighbors_memb is the number of records on neighbors_list, so the next
\* memb_alloc fails exactly when the list holds MAX_NEIGHBORS records.
C18_PoolMatchesList ==
  pc = "idle" =>
    /\ memb_used = Len(neighbors_list)
    /\ memb_alloc_fails(memb_used, max_neighbors)
         <=> Len(neighbors_list) = max_neighbors

\* C18 witness: an eviction from a full pool returned, the pool full again.
C18_Witness ==
  /\ Returned
  /\ outcome = "evicted"
  /\ max_neighbors = MaxCapacity
  /\ memb_used = MaxCapacity

\* C19: with MAX_NEIGHBORS >= 1 no NULL record is dereferenced: when the first
\* memb_alloc has failed the list has a tail, and n is not NULL when the fields
\* of the record are written.
C19_NoNullRecord ==
  max_neighbors >= 1 =>
    /\ fault = "none"
    /\ pc # "crashed"
    /\ pc = "full" => list_tail(neighbors_list) # NULL
    /\ pc \in {"init", "fill"} => n # NULL

\* C19 witness: at capacity 1 the second memb_alloc, right after the only record
\* was freed, has returned a slot.
C19_Witness ==
  /\ max_neighbors = 1
  /\ pc = "init"
  /\ outcome = "evicted"
  /\ n = UNLINKED
  /\ neighbors_list = <<>>

\* C20: from one return of broadcast_recv to the next the table size stays or
\* grows by one, and a table that held MAX_NEIGHBORS records at entry holds
\* MAX_NEIGHBORS records at return.
C20_SizeNeverDecreases ==
  Returned =>
    /\ Len(neighbors_list) \in {Len(pre), Len(pre) + 1}
    /\ Len(pre) = max_neighbors => Len(neighbors_list) = max_neighbors

\* C20 witness: a full table of MaxCapacity records went through an eviction
\* and holds MaxCapacity records at return.
C20_Witness ==
  /\ Returned
  /\ outcome = "evicted"
  /\ Len(pre) = MaxCapacity
  /\ Len(neighbors_list) = MaxCapacity
  /\ neighbors_list # pre

\* C13: sort_list_based_on_rssi returns for every list of up to MAX_NEIGHBORS
\* records, whatever the qualities and their order, ties included.
C13_SortTerminates == <>(pc = "dump")

\* C13 witness: the function has returned from a list of MAX_NEIGHBORS records
\* that came in strictly increasing order of quality.
C13_Witness ==
  /\ pc = "dump"
  /\ Len(pre) = MAX_NEIGHBORS
  /\ \A i \in 1..(Len(pre) - 1) : pre[i].last_rssi < pre[i + 1].last_rssi

\* C14: on return from sort_list_based_on_rssi the list is non-increasing in
\* quality and holds exactly the records it held at the call: none lost, none
\* twice, no quality changed.
C14_SortIsSortedPermutation ==
  pc = "dump" =>
    /\ NonIncreasing(neighbors_list)
    /\ Len(neighbors_list) = Len(pre)
    /\ RecordsOf(neighbors_list) = RecordsOf(pre)
    /\ Cardinality(AddrsOf(neighbors_list)) = Len(pre)
    /\ neighbors_list = sort_list_based_on_rssi(pre)

\* C14 witness: the function has returned from a list of MAX_NEIGHBORS records
\* with a tie and a rise, in another order than at the call.
C14_Witness ==
  /\ pc = "dump"
  /\ Len(pre) = MAX_NEIGHBORS
  /\ neighbors_list # pre
  /\ \E i \in 1..Len(pre), j \in 1..Len(pre) :
       i # j /\ pre[i].last_rssi = pre[j].last_rssi

\* a step of the send loop: the thread of the process moves
SendLoopStep == proc' # proc

\* C16: under every interleaving of the send loop with the receive callback, a
\* step of the send loop (begin, timer set, timer expiry, send) leaves the table
\* and the pool as they are and is taken only between two callbacks, never
\* between the lookup and the re-sort of one, so the table is within capacity,
\* free of duplicate addresses and sorted at every such step.
C16_SendLoopKeepsTable ==
  [][SendLoopStep =>
       /\ pc = "idle" /\ pc' = "idle"
       /\ neighbors_list' = neighbors_list
       /\ memb_used' = memb_used
       /\ C1_BoundedSize /\ C2_UniqueAddresses /\ NonIncreasing(neighbors_list)]_vars

\* C16 witness: the thread is about to send while the table holds LoopCapacity
\* records that a re-sort has reordered.
C16_Witness ==
  /\ proc = "send"
  /\ Returned
  /\ LoopCapacity >= 2
  /\ Len(neighbors_list) = LoopCapacity
  /\ outcome = "updated"
  /\ neighbors_list[Len(neighbors_list)].addr = from
  /\ pre[1].addr = from

\* C17: whatever random_rand() returns, the interval the timer is set to is
\* between 2 and 4 seconds.
C17_DelayTwoToFourSeconds ==
  proc = "wait" => et >= 2 * ClockSecond /\ et <= 4 * ClockSecond

====
